---------------------------- MODULE Spec2Model ----------------------------
(***************************************************************************)
(* The calculator engine of GuiCalculter.py (class CalculatorApp): the      *)
(* accumulator, the entry text, the pending operator, the repeat memory,    *)
(* the two flags, and the three things the widgets show (display text,      *)
(* clear-button label, highlighted operator).                               *)
(*                                                                          *)
(* Texts are sequences of one-character strings.  A decimal.Decimal is the  *)
(* triple Python keeps: [sign, coef, exp] stands for                        *)
(* (-1)^sign * coef * 10^exp.  The triple is kept as Python keeps it (1.50  *)
(* is coef 150, exp -2; 10 / 0.5 is coef 2, exp 1), so that parsing and     *)
(* formatting are conversions, not identities.                              *)
(***************************************************************************)
EXTENDS Integers, Sequences, FiniteSets, TLC

VARIABLES app,      \* the CalculatorApp object: its fields and what its widgets show
          event,    \* the handler that ran last, with its argument
          was       \* the modes of app when that handler was entered

vars == <<app, event, was>>

(***************************************************************************)
(* Bounds of the model.                                                     *)
(***************************************************************************)
\* Largest coefficient of a Decimal the model follows.
MaxCoef == 3
\* Most fractional digits of such a Decimal: its exponent is at least -MaxFrac.
MaxFrac == 1
\* Largest exponent of such a Decimal (2 / 0.1 is 2E+1).
MaxExp == MaxFrac - 1

\* The digit keys pressed in the model.
KeyDigits == {"0", "1", "2"}

None == "None"
Operators == {"+", "-", "*", "/"}
DigitSeq == <<"0", "1", "2", "3", "4", "5", "6", "7", "8", "9">>
DigitChars == {DigitSeq[i] : i \in 1..10}

(***************************************************************************)
(* Texts.                                                                   *)
(***************************************************************************)
ErrorText == <<"E", "r", "r", "o", "r">>

DigitValue(c) == (CHOOSE i \in 1..10 : DigitSeq[i] = c) - 1

RECURSIVE Pow10(_)
Pow10(k) == IF k <= 0 THEN 1 ELSE 10 * Pow10(k - 1)

\* str(n) for a natural number n
RECURSIVE DigitsOf(_)
DigitsOf(n) == IF n < 10 THEN <<DigitSeq[n + 1]>>
               ELSE Append(DigitsOf(n \div 10), DigitSeq[(n % 10) + 1])

\* int(digits), and 0 for no digits
RECURSIVE ValueOf(_)
ValueOf(digits) == IF digits = <<>> THEN 0
                   ELSE 10 * ValueOf(SubSeq(digits, 1, Len(digits) - 1))
                        + DigitValue(digits[Len(digits)])

\* text.rstrip(c)
RECURSIVE RStrip(_, _)
RStrip(text, c) == IF text # <<>> /\ text[Len(text)] = c
                   THEN RStrip(SubSeq(text, 1, Len(text) - 1), c)
                   ELSE text

\* c in text
Contains(text, c) == \E i \in 1..Len(text) : text[i] = c

\* '0' * n
Zeros(n) == [i \in 1..n |-> "0"]

Min(S) == CHOOSE x \in S : \A y \in S : x <= y

(***************************************************************************)
(* decimal.Decimal                                                          *)
(***************************************************************************)
Dec(sign, coef, exp) == [sign |-> sign, coef |-> coef, exp |-> exp]

\* Decimal(0)
DecZero == Dec(0, 0, 0)

\* Decimal(100)
DecHundred == Dec(0, 100, 0)

\* value == 0
IsZero(d) == d.coef = 0

\* value < 0
IsNegative(d) == d.sign = 1 /\ d.coef # 0

\* the Decimals whose arithmetic the model follows; within them Python's
\* 40-digit context never rounds, and no operation of the program makes a NaN
InRange(d) == d.coef <= MaxCoef /\ d.exp >= -MaxFrac /\ d.exp <= MaxExp

\* stands for a result outside InRange
Unrepresented == Dec(0, MaxCoef + 1, 0)

\* other.copy_negate()
DecNeg(d) == [d EXCEPT !.sign = 1 - d.sign]

\* abs(value)
DecAbs(d) == [d EXCEPT !.sign = 0]

\* self + other
DecAdd(a, b) ==
    LET exp == IF a.exp < b.exp THEN a.exp ELSE b.exp
        ca == a.coef * Pow10(a.exp - exp)
        cb == b.coef * Pow10(b.exp - exp)
    IN  IF a.coef = 0 /\ b.coef = 0
        THEN Dec(IF a.sign < b.sign THEN a.sign ELSE b.sign, 0, exp)
        ELSE IF a.sign = b.sign THEN Dec(a.sign, ca + cb, exp)
        ELSE IF ca = cb THEN Dec(0, 0, exp)
        ELSE IF ca > cb THEN Dec(a.sign, ca - cb, exp)
        ELSE Dec(b.sign, cb - ca, exp)

\* self - other
DecSub(a, b) == DecAdd(a, DecNeg(b))

\* self * other
DecMul(a, b) == Dec((a.sign + b.sign) % 2, a.coef * b.coef, a.exp + b.exp)

\* the fewest digits k, from k up to top, for which n * 10^k is a multiple of
\* d; -1 if there are none
RECURSIVE DivShift(_, _, _, _)
DivShift(n, d, k, top) ==
    IF k > top THEN -1
    ELSE IF (n * Pow10(k)) % d = 0 THEN k
    ELSE DivShift(n, d, k + 1, top)

\* self / other, other non-zero: the exact quotient with the exponent as close
\* to the ideal one (self.exp - other.exp) as it can be.  The search goes two
\* digits past MaxFrac, which is what a division by 100 can add to an entry; a
\* quotient that needs more digits than that, or has no finite expansion, is
\* outside InRange
DecDiv(a, b) ==
    LET sign  == (a.sign + b.sign) % 2
        ideal == a.exp - b.exp
        k     == DivShift(a.coef, b.coef, 0, ideal + MaxFrac + 2)
    IN  IF a.coef = 0 THEN Dec(sign, 0, ideal)
        ELSE IF k < 0 THEN Unrepresented
        ELSE Dec(sign, (a.coef * Pow10(k)) \div b.coef, ideal - k)

(***************************************************************************)
(* Parsing and formatting.                                                  *)
(***************************************************************************)
\* the texts Decimal(text) accepts, among the texts over digits, "-" and "."
IsDecimalLiteral(text) ==
    LET body == IF text # <<>> /\ text[1] = "-" THEN Tail(text) ELSE text
    IN  /\ \A i \in 1..Len(body) : body[i] \in DigitChars \cup {"."}
        /\ Cardinality({i \in 1..Len(body) : body[i] = "."}) <= 1
        /\ \E i \in 1..Len(body) : body[i] \in DigitChars

\* Decimal(text) for a text it accepts
DecimalOfText(text) ==
    LET neg    == text[1] = "-"
        body   == IF neg THEN Tail(text) ELSE text
        dot    == IF Contains(body, ".")
                  THEN CHOOSE i \in 1..Len(body) : body[i] = "."
                  ELSE Len(body) + 1
        int    == SubSeq(body, 1, dot - 1)
        frac   == SubSeq(body, dot + 1, Len(body))
    IN  Dec(IF neg THEN 1 ELSE 0, ValueOf(int \o frac), -Len(frac))

_decimal_from_text(text) ==
    IF text \in {<<>>, <<"-">>, <<".">>, <<"-", ".">>, <<"0", ".">>, <<"-", "0", ".">>}
    THEN DecZero
    ELSE IF IsDecimalLiteral(text) THEN DecimalOfText(text)
    ELSE DecZero

\* format(value, "f") for a value with sign 0
FormatF(d) ==
    LET v        == IF d.exp > 0 THEN Dec(0, d.coef * Pow10(d.exp), 0) ELSE d
        digits   == DigitsOf(v.coef)
        dotplace == v.exp + Len(digits)
        intpart  == IF dotplace < 0 THEN <<"0">>
                    ELSE IF dotplace = 0 THEN <<"0">>
                    ELSE SubSeq(digits, 1, dotplace)
        fracpart == IF dotplace < 0 THEN Zeros(-dotplace) \o digits
                    ELSE SubSeq(digits, dotplace + 1, Len(digits))
    IN  IF fracpart = <<>> THEN intpart ELSE intpart \o <<".">> \o fracpart

_format_decimal(value) ==
    IF IsZero(value) THEN <<"0">>
    ELSE LET sign == IF IsNegative(value) THEN <<"-">> ELSE <<>>
             text == FormatF(DecAbs(value))
             cut  == IF Contains(text, ".") THEN RStrip(RStrip(text, "0"), ".") ELSE text
         IN  sign \o (IF cut # <<>> THEN cut ELSE <<"0">>)

(***************************************************************************)
(* CalculatorApp                                                            *)
(***************************************************************************)
\* the object as __init__ leaves it
NewApp == [accumulator      |-> DecZero,
           current_text     |-> <<"0">>,
           pending_op       |-> None,
           last_op          |-> None,
           last_operand     |-> DecZero,
           reset_next_entry |-> FALSE,
           error_state      |-> FALSE,
           display_var      |-> <<"0">>,
           clear_label      |-> "AC",
           op_highlight     |-> None]

_set_display(s, text) == [s EXCEPT !.display_var = text]

_update_op_highlight(s, op) ==
    [s EXCEPT !.op_highlight = IF op \in Operators THEN op ELSE None]

is_all_clear(s) == /\ s.current_text = <<"0">>
                   /\ IsZero(s.accumulator)
                   /\ s.pending_op = None
                   /\ ~s.reset_next_entry

_refresh_clear_label(s) ==
    IF s.error_state THEN [s EXCEPT !.clear_label = "AC"]
    ELSE [s EXCEPT !.clear_label = IF is_all_clear(s) THEN "AC" ELSE "C"]

\* _set_error that forgets to clear the repeat memory
_set_error_keeps_memory(s) ==
    LET s1 == [s EXCEPT !.error_state = TRUE,
                        !.pending_op = None,
                        !.reset_next_entry = TRUE]
    IN  _refresh_clear_label(_update_op_highlight(_set_display(s1, ErrorText), None))

_set_error(s) ==
    LET s1 == [s EXCEPT !.error_state = TRUE,
                        !.pending_op = None,
                        !.last_op = None,
                        !.last_operand = DecZero,
                        !.reset_next_entry = TRUE]
    IN  _refresh_clear_label(_update_op_highlight(_set_display(s1, ErrorText), None))

\* accumulator <op> rhs, for a division with rhs non-zero
Apply(op, acc, rhs) ==
    CASE op = "+" -> DecAdd(acc, rhs)
      [] op = "-" -> DecSub(acc, rhs)
      [] op = "*" -> DecMul(acc, rhs)
      [] op = "/" -> DecDiv(acc, rhs)

_commit_pending(s, rhs) ==
    IF s.pending_op = None THEN [s EXCEPT !.accumulator = rhs]
    ELSE IF s.pending_op = "/" /\ IsZero(rhs) THEN _set_error(s)
    ELSE [s EXCEPT !.accumulator = Apply(s.pending_op, s.accumulator, rhs)]

\* on_all_clear that forgets to clear the repeat memory
on_all_clear_keeps_memory(s) ==
    LET s1 == [s EXCEPT !.accumulator = DecZero,
                        !.current_text = <<"0">>,
                        !.pending_op = None,
                        !.reset_next_entry = FALSE,
                        !.error_state = FALSE]
        s2 == _update_op_highlight(s1, None)
    IN  _refresh_clear_label(_set_display(s2, s2.current_text))

on_all_clear(s) ==
    LET s1 == [s EXCEPT !.accumulator = DecZero,
                        !.current_text = <<"0">>,
                        !.pending_op = None,
                        !.last_op = None,
                        !.last_operand = DecZero,
                        !.reset_next_entry = FALSE,
                        !.error_state = FALSE]
        s2 == _update_op_highlight(s1, None)
    IN  _refresh_clear_label(_set_display(s2, s2.current_text))

\* on_digit without the All-Clear in the Error state
on_digit_keeps_error(s, digit) ==
    LET s2 == IF s.reset_next_entry
              THEN [s EXCEPT !.current_text = <<"0">>, !.reset_next_entry = FALSE]
              ELSE s
        s3 == IF s2.current_text = <<"0">> THEN [s2 EXCEPT !.current_text = <<digit>>]
              ELSE IF s2.current_text = <<"-", "0">>
                   THEN [s2 EXCEPT !.current_text = <<"-", digit>>]
              ELSE [s2 EXCEPT !.current_text = Append(s2.current_text, digit)]
    IN  _refresh_clear_label(_set_display(s3, s3.current_text))

\* on_digit without the replacement of a lone "0"
on_digit_appends_to_zero(s, digit) ==
    LET s1 == IF s.error_state THEN on_all_clear(s) ELSE s
        s2 == IF s1.reset_next_entry
              THEN [s1 EXCEPT !.current_text = <<"0">>, !.reset_next_entry = FALSE]
              ELSE s1
        s3 == [s2 EXCEPT !.current_text = Append(s2.current_text, digit)]
    IN  _refresh_clear_label(_set_display(s3, s3.current_text))

on_digit(s, digit) ==
    LET s1 == IF s.error_state THEN on_all_clear(s) ELSE s
        s2 == IF s1.reset_next_entry
              THEN [s1 EXCEPT !.current_text = <<"0">>, !.reset_next_entry = FALSE]
              ELSE s1
        s3 == IF s2.current_text = <<"0">> THEN [s2 EXCEPT !.current_text = <<digit>>]
              ELSE IF s2.current_text = <<"-", "0">>
                   THEN [s2 EXCEPT !.current_text = <<"-", digit>>]
              ELSE [s2 EXCEPT !.current_text = Append(s2.current_text, digit)]
    IN  _refresh_clear_label(_set_display(s3, s3.current_text))

\* on_decimal that returns after the All-Clear in the Error state
on_decimal_drops_point(s) ==
    IF s.error_state THEN on_all_clear(s)
    ELSE LET s2 == IF s.reset_next_entry
                   THEN [s EXCEPT !.current_text = <<"0">>, !.reset_next_entry = FALSE]
                   ELSE s
             s3 == IF ~Contains(s2.current_text, ".")
                   THEN [s2 EXCEPT !.current_text = Append(s2.current_text, ".")]
                   ELSE s2
         IN  _refresh_clear_label(_set_display(s3, s3.current_text))

on_decimal(s) ==
    LET s1 == IF s.error_state THEN on_all_clear(s) ELSE s
        s2 == IF s1.reset_next_entry
              THEN [s1 EXCEPT !.current_text = <<"0">>, !.reset_next_entry = FALSE]
              ELSE s1
        s3 == IF ~Contains(s2.current_text, ".")
              THEN [s2 EXCEPT !.current_text = Append(s2.current_text, ".")]
              ELSE s2
    IN  _refresh_clear_label(_set_display(s3, s3.current_text))

\* on_backspace that keeps a lone "-"
on_backspace_keeps_sign(s) ==
    IF s.error_state THEN on_all_clear(s)
    ELSE IF s.reset_next_entry THEN s
    ELSE LET text == s.current_text
             s1   == IF Len(text) <= 1
                     THEN [s EXCEPT !.current_text = <<"0">>]
                     ELSE [s EXCEPT !.current_text = SubSeq(text, 1, Len(text) - 1)]
         IN  _refresh_clear_label(_set_display(s1, s1.current_text))

on_backspace(s) ==
    IF s.error_state THEN on_all_clear(s)
    ELSE IF s.reset_next_entry THEN s
    ELSE LET text == s.current_text
             s1   == IF Len(text) <= 1 \/ (Len(text) = 2 /\ text[1] = "-")
                     THEN [s EXCEPT !.current_text = <<"0">>]
                     ELSE [s EXCEPT !.current_text = SubSeq(text, 1, Len(text) - 1)]
         IN  _refresh_clear_label(_set_display(s1, s1.current_text))

\* the lines of on_operator after the commit, without last_op = None
OperatorTail_keeps_last_op(s, op) ==
    LET s1 == [s EXCEPT !.pending_op = op]
        s2 == _set_display(s1, _format_decimal(s1.accumulator))
        s3 == [s2 EXCEPT !.current_text = _format_decimal(s2.accumulator),
                         !.reset_next_entry = TRUE]
    IN  _refresh_clear_label(_update_op_highlight(s3, op))

\* the lines of on_operator after the commit
OperatorTail(s, op) ==
    LET s1 == [s EXCEPT !.pending_op = op, !.last_op = None]
        s2 == _set_display(s1, _format_decimal(s1.accumulator))
        s3 == [s2 EXCEPT !.current_text = _format_decimal(s2.accumulator),
                         !.reset_next_entry = TRUE]
    IN  _refresh_clear_label(_update_op_highlight(s3, op))

\* no early return: the replaced operator goes through the lines after the commit
OperatorReplace_falls_through(s, op) == OperatorTail(s, op)

\* the early return of on_operator that leaves the old operator highlighted
OperatorReplace_keeps_highlight(s, op) == [s EXCEPT !.pending_op = op]

\* the early return of on_operator: the pending operator is replaced
OperatorReplace(s, op) == _update_op_highlight([s EXCEPT !.pending_op = op], op)

on_operator(s, op) ==
    IF s.error_state THEN s
    ELSE IF op \notin Operators THEN s
    ELSE LET rhs == _decimal_from_text(s.current_text)
         IN  IF s.pending_op # None /\ s.reset_next_entry THEN OperatorReplace(s, op)
             ELSE IF s.pending_op = None
                  THEN OperatorTail([s EXCEPT !.accumulator = rhs], op)
             ELSE LET s1 == _commit_pending(s, rhs)
                  IN  IF s1.error_state THEN s1 ELSE OperatorTail(s1, op)

\* the end of on_equals without reset_next_entry = True
EqualsTail_keeps_entry_open(s) ==
    LET s1 == [s EXCEPT !.current_text = _format_decimal(s.accumulator)]
        s2 == _set_display(s1, s1.current_text)
    IN  _refresh_clear_label(s2)

\* the last four lines of on_equals
EqualsTail(s) ==
    LET s1 == [s EXCEPT !.current_text = _format_decimal(s.accumulator)]
        s2 == _set_display(s1, s1.current_text)
    IN  _refresh_clear_label([s2 EXCEPT !.reset_next_entry = TRUE])

\* on_equals with an operator pending, without pending_op = None
EqualsPending_keeps_pending(s) ==
    LET rhs == _decimal_from_text(s.current_text)
        op  == s.pending_op
        s1  == _commit_pending(s, rhs)
    IN  IF s1.error_state THEN s1
        ELSE EqualsTail(_update_op_highlight(
                 [s1 EXCEPT !.last_op = op, !.last_operand = rhs],
                 None))

\* on_equals with an operator pending that remembers the result as the operand
EqualsPending_remembers_result(s) ==
    LET rhs == _decimal_from_text(s.current_text)
        op  == s.pending_op
        s1  == _commit_pending(s, rhs)
    IN  IF s1.error_state THEN s1
        ELSE EqualsTail(_update_op_highlight(
                 [s1 EXCEPT !.last_op = op, !.last_operand = s1.accumulator,
                            !.pending_op = None],
                 None))

\* on_equals with an operator pending
EqualsPending(s) ==
    LET rhs == _decimal_from_text(s.current_text)
        op  == s.pending_op
        s1  == _commit_pending(s, rhs)
    IN  IF s1.error_state THEN s1
        ELSE EqualsTail(_update_op_highlight(
                 [s1 EXCEPT !.last_op = op, !.last_operand = rhs, !.pending_op = None],
                 None))

\* the repeat case reading the entry instead of last_operand
EqualsRepeat_reads_entry(s) ==
    LET s1 == _commit_pending([s EXCEPT !.pending_op = s.last_op],
                              _decimal_from_text(s.current_text))
        s2 == [s1 EXCEPT !.pending_op = None]
    IN  IF s2.error_state THEN s2 ELSE EqualsTail(s2)

\* on_equals with none pending and an operation remembered
EqualsRepeat(s) ==
    LET s1 == _commit_pending([s EXCEPT !.pending_op = s.last_op], s.last_operand)
        s2 == [s1 EXCEPT !.pending_op = None]
    IN  IF s2.error_state THEN s2 ELSE EqualsTail(s2)

on_equals(s) ==
    IF s.error_state THEN s
    ELSE IF s.pending_op # None THEN EqualsPending(s)
    ELSE IF s.last_op # None THEN EqualsRepeat(s)
    ELSE EqualsTail(s)

\* the percentage taken of the accumulator while an operator is pending
PercentValue_of_accumulator(s) ==
    IF s.pending_op # None
    THEN DecDiv(DecMul(s.accumulator, _decimal_from_text(s.current_text)), DecHundred)
    ELSE DecDiv(_decimal_from_text(s.current_text), DecHundred)

\* value / Decimal(100) in on_percent
PercentValue(s) == DecDiv(_decimal_from_text(s.current_text), DecHundred)

on_percent(s) ==
    IF s.error_state THEN s
    ELSE LET s1 == [s EXCEPT !.current_text = _format_decimal(PercentValue(s))]
         IN  _refresh_clear_label(_set_display(s1, s1.current_text))

\* on_toggle_sign without the return in the Error state
on_toggle_sign_in_error(s) ==
    LET text == s.current_text
        s1   == IF text # <<>> /\ text[1] = "-"
                THEN [s EXCEPT !.current_text = Tail(text)]
                ELSE IF text # <<"0">>
                     THEN [s EXCEPT !.current_text = <<"-">> \o text]
                ELSE [s EXCEPT !.current_text = <<"-", "0">>]
    IN  _refresh_clear_label(_set_display(s1, s1.current_text))

\* on_toggle_sign that takes the toggled text for a typed entry
on_toggle_sign_starts_entry(s) ==
    IF s.error_state THEN s
    ELSE LET text == s.current_text
             s1   == IF text # <<>> /\ text[1] = "-"
                     THEN [s EXCEPT !.current_text = Tail(text)]
                     ELSE IF text # <<"0">>
                          THEN [s EXCEPT !.current_text = <<"-">> \o text]
                     ELSE [s EXCEPT !.current_text = <<"-", "0">>]
             s2   == [s1 EXCEPT !.reset_next_entry = FALSE]
         IN  _refresh_clear_label(_set_display(s2, s2.current_text))

on_toggle_sign(s) ==
    IF s.error_state THEN s
    ELSE LET text == s.current_text
             s1   == IF text # <<>> /\ text[1] = "-"
                     THEN [s EXCEPT !.current_text = Tail(text)]
                     ELSE IF text # <<"0">>
                          THEN [s EXCEPT !.current_text = <<"-">> \o text]
                     ELSE [s EXCEPT !.current_text = <<"-", "0">>]
         IN  _refresh_clear_label(_set_display(s1, s1.current_text))

\* a soft clear that drops the pending operator too
SoftClear_drops_pending(s) ==
    LET s1 == [s EXCEPT !.current_text = <<"0">>, !.pending_op = None]
        s2 == _set_display(s1, s1.current_text)
    IN  _refresh_clear_label([s2 EXCEPT !.reset_next_entry = FALSE])

\* the else branch of on_clear without the _set_display call
SoftClear_keeps_display(s) ==
    _refresh_clear_label([s EXCEPT !.current_text = <<"0">>,
                                   !.reset_next_entry = FALSE])

\* the else branch of on_clear
SoftClear(s) ==
    LET s1 == [s EXCEPT !.current_text = <<"0">>]
        s2 == _set_display(s1, s1.current_text)
    IN  _refresh_clear_label([s2 EXCEPT !.reset_next_entry = FALSE])

on_clear(s) ==
    IF s.error_state THEN on_all_clear(s)
    ELSE IF is_all_clear(s) THEN on_all_clear(s)
    ELSE SoftClear(s)

(***************************************************************************)
(* The state machine: one action per handler.  A handler runs to its end    *)
(* before the next event is taken (Tk's main loop).                         *)
(***************************************************************************)
\* the modes of the engine: the flags and the two operators
Modes(s) == [error_state      |-> s.error_state,
             reset_next_entry |-> s.reset_next_entry,
             pending_op       |-> s.pending_op,
             last_op          |-> s.last_op]

Init == /\ app = NewApp
        /\ event = [kind |-> "new", arg |-> None]
        /\ was = Modes(NewApp)

\* the Decimals a step leaves are ones the model follows
Bounded(s) == InRange(s.accumulator) /\ InRange(s.last_operand)

\* a key press builds only entry texts for Decimals the model follows
Typed(s) == InRange(_decimal_from_text(s.current_text))

\* the history the claims read: the handler that ran, and the modes it found
Handled(kind, arg) == /\ event' = [kind |-> kind, arg |-> arg]
                      /\ was' = Modes(app)

Digit(d) == /\ app' = on_digit(app, d)
            /\ Typed(app')
            /\ Bounded(app')
            /\ Handled("Digit", d)

DecimalPoint == /\ app' = on_decimal(app)
                /\ Typed(app')
                /\ Bounded(app')
                /\ Handled("DecimalPoint", None)

Backspace == /\ app' = on_backspace(app)
             /\ Bounded(app')
             /\ Handled("Backspace", None)

Operator(op) == /\ app' = on_operator(app, op)
                /\ Bounded(app')
                /\ Handled("Operator", op)

Equals == /\ app' = on_equals(app)
          /\ Bounded(app')
          /\ Handled("Equals", None)

Percent == /\ app.error_state \/ InRange(PercentValue(app))
           /\ app' = on_percent(app)
           /\ Bounded(app')
           /\ Handled("Percent", None)

SignToggle == /\ app' = on_toggle_sign(app)
              /\ Bounded(app')
              /\ Handled("SignToggle", None)

Clear == /\ app' = on_clear(app)
         /\ Bounded(app')
         /\ Handled("Clear", None)

AllClear == /\ app' = on_all_clear(app)
            /\ Bounded(app')
            /\ Handled("AllClear", None)

Next == \/ \E d \in KeyDigits : Digit(d)
        \/ DecimalPoint
        \/ Backspace
        \/ \E op \in Operators : Operator(op)
        \/ Equals
        \/ Percent
        \/ SignToggle
        \/ Clear
        \/ AllClear

Spec == Init /\ [][Next]_vars

(***************************************************************************)
(* The claims.  event and was tell which handler led to app and in which    *)
(* modes it found the engine; an action formula compares app with app'.     *)
(***************************************************************************)
\* the engine's seven fields, without what the widgets show
Engine(s) == [accumulator      |-> s.accumulator,
              current_text     |-> s.current_text,
              pending_op       |-> s.pending_op,
              last_op          |-> s.last_op,
              last_operand     |-> s.last_operand,
              reset_next_entry |-> s.reset_next_entry,
              error_state      |-> s.error_state]

\* C1: an AllClear event, from any state, leaves the engine and its outputs
\* exactly as construction does: accumulator 0, entry text "0", no pending
\* and no last operator, last operand 0, both flags false, display "0",
\* clear label "AC", no operator highlighted.
C1_AllClearIsInitial == event.kind = "AllClear" => app = NewApp

C1_Witness == /\ event.kind = "AllClear"
              /\ was.error_state
              /\ app = NewApp

\* the keys of a run, pressed one after the other on a new calculator
RECURSIVE Press(_, _)
Press(s, keys) ==
    IF keys = <<>> THEN s
    ELSE LET k == Head(keys)
             t == CASE k \in DigitChars -> on_digit(s, k)
                    [] k \in Operators  -> on_operator(s, k)
                    [] k = "="          -> on_equals(s)
                    [] k = "."          -> on_decimal(s)
                    [] k = "%"          -> on_percent(s)
                    [] k = "s"          -> on_toggle_sign(s)
                    [] k = "C"          -> on_clear(s)
                    [] k = "A"          -> on_all_clear(s)
                    [] k = "B"          -> on_backspace(s)
         IN  Press(t, Tail(keys))

Shows(keys) == Press(NewApp, keys).display_var

\* C2: an Equals that commits a pending operator op with the entry r
\* remembers op and r; an Equals that finds no pending operator and an
\* operation remembered sets the accumulator to accumulator op r, shows
\* the formatted result and keeps the memory, so the operation repeats
\* (1 + 2 = shows 3, then 5, then 7).
C2_EqualsRepeats ==
    /\ Shows(<<"1", "+", "2", "=">>) = <<"3">>
    /\ Shows(<<"1", "+", "2", "=", "=">>) = <<"5">>
    /\ Shows(<<"1", "+", "2", "=", "=", "=">>) = <<"7">>
    /\ [][ /\ ( /\ event'.kind = "Equals"
                /\ ~app.error_state
                /\ app.pending_op # None
                /\ ~app'.error_state )
              => /\ app'.pending_op = None
                 /\ app'.last_op = app.pending_op
                 /\ app'.last_operand = _decimal_from_text(app.current_text)
           /\ ( /\ event'.kind = "Equals"
                /\ ~app.error_state
                /\ app.pending_op = None
                /\ app.last_op # None )
              => /\ app'.accumulator
                      = Apply(app.last_op, app.accumulator, app.last_operand)
                 /\ app'.display_var = _format_decimal(app'.accumulator)
                 /\ app'.current_text = app'.display_var
                 /\ app'.last_op = app.last_op
                 /\ app'.last_operand = app.last_operand
                 /\ app'.pending_op = None
                 /\ ~app'.error_state ]_vars

\* 1 + 1 = = : the second Equals adds 1 again and shows 3
C2_Witness == /\ event.kind = "Equals"
              /\ ~was.error_state
              /\ was.pending_op = None
              /\ was.last_op = "+"
              /\ app.last_op = "+"
              /\ app.last_operand = Dec(0, 1, 0)
              /\ app.display_var = <<"3">>

\* C3: an Operator or Equals event that commits a pending division with an
\* entry that parses to zero ends in the Error state: error flag set, no
\* pending and no last operator, last operand 0, fresh-entry flag set,
\* display "Error"; the accumulator and the entry text are as before.
C3_DivisionByZero ==
    [][ ( /\ event'.kind \in {"Operator", "Equals"}
          /\ ~app.error_state
          /\ app.pending_op = "/"
          /\ event'.kind = "Operator" => ~app.reset_next_entry
          /\ IsZero(_decimal_from_text(app.current_text)) )
        => /\ app'.error_state
           /\ app'.pending_op = None
           /\ app'.last_op = None
           /\ app'.last_operand = DecZero
           /\ app'.reset_next_entry
           /\ app'.display_var = ErrorText
           /\ app'.accumulator = app.accumulator
           /\ app'.current_text = app.current_text ]_vars

\* 2 / 0 = : the error is entered with 2 in the accumulator
C3_Witness == /\ event.kind = "Equals"
              /\ ~was.error_state
              /\ was.pending_op = "/"
              /\ app.error_state
              /\ app.display_var = ErrorText
              /\ app.accumulator = Dec(0, 2, 0)
              /\ app.current_text = <<"0">>

\* C4: a Digit(d) event in the Error state leaves the engine as
\* construction does, except that the entry text and the display are d.
C4_DigitLeavesError ==
    (event.kind = "Digit" /\ was.error_state)
    => /\ Engine(app) = [Engine(NewApp) EXCEPT !.current_text = <<event.arg>>]
       /\ app.display_var = <<event.arg>>
       /\ app.op_highlight = None

C4_Witness == /\ event.kind = "Digit"
              /\ was.error_state
              /\ app.current_text = <<"2">>
              /\ ~app.error_state

\* C5 as claimed: a DecimalPoint event in the Error state leaves the engine
\* in the initial state, with entry text "0": the point is not inserted.
C5_AsClaimed ==
    (event.kind = "DecimalPoint" /\ was.error_state)
    => /\ Engine(app) = Engine(NewApp)
       /\ app.current_text = <<"0">>

\* C5 as amended: a DecimalPoint event in the Error state performs the
\* All-Clear and then inserts the point: the engine is as construction leaves
\* it except that the entry text and the display are "0." (and the clear
\* label reads "C").
C5_DecimalLeavesError ==
    (event.kind = "DecimalPoint" /\ was.error_state)
    => app = [NewApp EXCEPT !.current_text = <<"0", ".">>,
                            !.display_var = <<"0", ".">>,
                            !.clear_label = "C"]

C5_Witness == /\ event.kind = "DecimalPoint"
              /\ was.error_state
              /\ app.current_text = <<"0", ".">>
              /\ ~app.error_state

\* C6: in the Error state the events Operator, Equals, Percent and
\* SignToggle change nothing: neither a field of the engine nor the display,
\* the clear label or the highlighted operator.
C6_ErrorIgnoresInput ==
    [][ ( /\ app.error_state
          /\ event'.kind \in {"Operator", "Equals", "Percent", "SignToggle"} )
        => /\ app' = app
           /\ app'.display_var = ErrorText ]_vars

C6_Witness == /\ event.kind = "SignToggle"
              /\ was.error_state
              /\ app.error_state
              /\ app.display_var = ErrorText
              /\ app.clear_label = "AC"

\* C7: with an operator pending and the fresh-entry flag set, Operator(op)
\* changes the pending operator and its highlight to op and nothing else
\* (5 + * 3 = shows 15).
C7_OperatorReplaces ==
    /\ Shows(<<"5", "+", "*", "3", "=">>) = <<"1", "5">>
    /\ [][ ( /\ event'.kind = "Operator"
             /\ ~app.error_state
             /\ app.pending_op # None
             /\ app.reset_next_entry )
           => app' = [app EXCEPT !.pending_op = event'.arg,
                                 !.op_highlight = event'.arg] ]_vars

\* 2 + * : the pending + has become *, the 2 is still the accumulator
C7_Witness == /\ event.kind = "Operator"
              /\ event.arg = "*"
              /\ ~was.error_state
              /\ was.pending_op = "+"
              /\ was.reset_next_entry
              /\ app.pending_op = "*"
              /\ app.op_highlight = "*"
              /\ app.accumulator = Dec(0, 2, 0)

\* C8 as claimed: after every Operator(op) event handled outside the Error
\* state and not ending in it, replacement included, op is pending, no last
\* operator is remembered, the fresh-entry flag is set, and the entry text
\* and the display are the formatted accumulator.
C8_AsClaimed ==
    (event.kind = "Operator" /\ ~was.error_state /\ ~app.error_state)
    => /\ app.pending_op = event.arg
       /\ app.last_op = None
       /\ app.reset_next_entry
       /\ app.current_text = _format_decimal(app.accumulator)
       /\ app.display_var = _format_decimal(app.accumulator)

\* C8 as amended: after every such event op is pending, no last operator is
\* remembered and the fresh-entry flag is set; the entry text and the
\* display are the formatted accumulator when op did not merely replace a
\* pending operator.
C8_AfterOperator ==
    (event.kind = "Operator" /\ ~was.error_state /\ ~app.error_state)
    => /\ app.pending_op = event.arg
       /\ app.op_highlight = event.arg
       /\ app.last_op = None
       /\ app.reset_next_entry
       /\ ~(was.pending_op # None /\ was.reset_next_entry)
          => /\ app.current_text = _format_decimal(app.accumulator)
             /\ app.display_var = _format_decimal(app.accumulator)

\* 2 + sign-toggle * : the * replaces the +, and the entry and the display
\* stay "-2" with 2 in the accumulator
C8_Witness == /\ event.kind = "Operator"
              /\ event.arg = "*"
              /\ ~was.error_state
              /\ was.pending_op = "+"
              /\ was.reset_next_entry
              /\ app.pending_op = "*"
              /\ app.last_op = None
              /\ app.reset_next_entry
              /\ app.accumulator = Dec(0, 2, 0)
              /\ app.current_text = <<"-", "2">>
              /\ app.display_var = <<"-", "2">>

\* C9: a Clear event outside the Error state and outside the fully-reset
\* state sets the entry text and the display to "0" and clears the
\* fresh-entry flag, and leaves the accumulator, the pending operator and
\* the repeat memory alone; in the Error state and in the fully-reset state
\* it is an All-Clear.
C9_ClearIsSoft ==
    [][ event'.kind = "Clear"
        => IF app.error_state \/ is_all_clear(app)
           THEN app' = NewApp
           ELSE /\ Engine(app') = [Engine(app) EXCEPT !.current_text = <<"0">>,
                                                      !.reset_next_entry = FALSE]
                /\ app'.display_var = <<"0">>
                /\ app'.op_highlight = app.op_highlight ]_vars

\* 2 + 1 C : the entry is "0" again, 2 + is still waiting
C9_Witness == /\ event.kind = "Clear"
              /\ ~was.error_state
              /\ was.pending_op = "+"
              /\ app.pending_op = "+"
              /\ app.accumulator = Dec(0, 2, 0)
              /\ app.current_text = <<"0">>
              /\ ~app.reset_next_entry
              /\ app.clear_label = "C"

\* C10: whenever the clear label reads "AC" outside the Error state, the
\* engine is fully reset: accumulator 0, entry text "0", no pending
\* operator, no last operator remembered, fresh-entry flag false.
C10_AcMeansReset ==
    (app.clear_label = "AC" /\ ~app.error_state)
    => /\ IsZero(app.accumulator)
       /\ app.current_text = <<"0">>
       /\ app.pending_op = None
       /\ app.last_op = None
       /\ ~app.reset_next_entry

\* a decimal entry: an optional "-", then "0" or digits that do not start with
\* "0", then optionally "." and any number of digits (none while the point has
\* just been typed)
WellFormed(text) ==
    LET body   == IF text # <<>> /\ text[1] = "-" THEN Tail(text) ELSE text
        dots   == {i \in 1..Len(body) : body[i] = "."}
        intlen == IF dots = {} THEN Len(body) ELSE Min(dots) - 1
    IN  /\ \A i \in 1..Len(body) : body[i] \in DigitChars \cup {"."}
        /\ Cardinality(dots) <= 1
        /\ intlen >= 1
        /\ intlen > 1 => body[1] # "0"

\* C11: in every reachable state the entry text is a well-formed decimal
\* entry: never empty, never just "-", at most one point, no superfluous
\* leading zero and no exponent
C11_EntryWellFormed == WellFormed(app.current_text)

\* a point typed after the sign toggle of "0": the entry is "-0."
C11_Witness ==
    /\ event.kind = "DecimalPoint"
    /\ ~was.error_state
    /\ app.current_text = <<"-", "0", ".">>

\* C12: in a non-error state two SignToggle events in a row restore the whole
\* object, display and hints included ("0" shows "-0" and then "0" again),
\* and one SignToggle leaves accumulator, pending operator, repeat memory and
\* the fresh-entry flag as they were
C12_SignToggleTwice ==
    /\ Shows(<<"s">>) = <<"-", "0">>
    /\ Shows(<<"s", "s">>) = <<"0">>
    /\ (~app.error_state) =>
           LET once  == on_toggle_sign(app)
               twice == on_toggle_sign(once)
           IN  /\ twice = app
               /\ once.accumulator = app.accumulator
               /\ once.pending_op = app.pending_op
               /\ once.last_op = app.last_op
               /\ once.last_operand = app.last_operand
               /\ once.reset_next_entry = app.reset_next_entry
               /\ ~once.error_state

\* a second sign toggle has taken "-0" back to "0" while + is pending on a
\* non-zero accumulator
C12_Witness ==
    /\ event.kind = "SignToggle"
    /\ ~was.error_state
    /\ app.current_text = <<"0">>
    /\ app.pending_op = "+"
    /\ ~IsZero(app.accumulator)
    /\ on_toggle_sign(app).current_text = <<"-", "0">>

\* C13: from every non-error state whose entry is "0", SignToggle sets the
\* entry to "-0" and a Digit d in 1..9 right after it leaves "-" d
C13_NegativeFromScratch ==
    (~app.error_state /\ app.current_text = <<"0">>) =>
        LET toggled == on_toggle_sign(app)
        IN  /\ toggled.current_text = <<"-", "0">>
            /\ \A d \in DigitChars \ {"0"} :
                   on_digit(toggled, d).current_text = <<"-", d>>

(***************************************************************************)
(* The "%" key on what a short run of keys has left.  The keys of the run   *)
(* do not divide, so the run is exact whatever the digits; the percentage   *)
(* is taken of entries with at most MaxFrac fractional digits, which is as  *)
(* far as DecDiv looks for the two digits a division by 100 adds.           *)
(***************************************************************************)
\* Longest run of keys before the "%" key.
MaxKeys == 4

\* the keys of such a run
RunKeys == {"0", "5", "9", ".", "s", "+", "*", "=", "C"}

KeyRuns == UNION {[1..n -> RunKeys] : n \in 0..MaxKeys}

InitAfterRun == /\ \E keys \in KeyRuns : app = Press(NewApp, keys)
                /\ event = [kind |-> "new", arg |-> None]
                /\ was = Modes(app)

PercentAfterRun == /\ event.kind = "new"
                   /\ _decimal_from_text(app.current_text).exp >= -MaxFrac
                   /\ app' = on_percent(app)
                   /\ Handled("Percent", None)

SpecPercent == InitAfterRun /\ [][PercentAfterRun]_vars

\* C14: in a non-error state Percent replaces the entry text and the display
\* by the formatted parse(entry) / 100 (9 % shows "0.09") and leaves
\* accumulator, pending operator, repeat memory, fresh-entry flag and error
\* flag as they were; of the hints only the clear label may change
C14_PercentDividesEntry ==
    /\ Shows(<<"9", "%">>) = <<"0", ".", "0", "9">>
    /\ [][(event'.kind = "Percent" /\ ~app.error_state) =>
              LET shown == _format_decimal(
                               DecDiv(_decimal_from_text(app.current_text), DecHundred))
              IN  app' = [app EXCEPT !.current_text = shown,
                                     !.display_var = shown,
                                     !.clear_label = app'.clear_label]]_vars

\* 5 + 9 %: the entry is 0.09 while + is still pending on 5
C14_Witness ==
    /\ event.kind = "Percent"
    /\ ~was.error_state
    /\ app.current_text = <<"0", ".", "0", "9">>
    /\ app.display_var = <<"0", ".", "0", "9">>
    /\ app.pending_op = "+"
    /\ app.accumulator = Dec(0, 5, 0)

\* C15: after every event, the early returns of the handlers included, the
\* clear label reads "AC" if the error flag is set or the entry is "0", the
\* accumulator zero, no operator pending and no fresh entry awaited, and "C"
\* otherwise; the highlighted operator is the pending one, none when none is
C15_HintsFollowState ==
    /\ app.clear_label =
           IF \/ app.error_state
              \/ /\ app.current_text = <<"0">>
                 /\ IsZero(app.accumulator)
                 /\ app.pending_op = None
                 /\ ~app.reset_next_entry
           THEN "AC" ELSE "C"
    /\ app.op_highlight = app.pending_op

\* a Backspace ignored while a fresh entry is awaited after "/": the label
\* still reads "C" and "/" is still highlighted
C15_Witness ==
    /\ event.kind = "Backspace"
    /\ was.reset_next_entry
    /\ ~was.error_state
    /\ app.pending_op = "/"
    /\ app.op_highlight = "/"
    /\ app.clear_label = "C"

\* C16: an Equals in a non-error state with no operator pending and nothing
\* remembered leaves the accumulator as it was, writes the formatted
\* accumulator over the entry text and the display, whatever had been typed,
\* and sets the fresh-entry flag (5 = shows 0)
C16_EqualsWithNothingToDo ==
    /\ Shows(<<"5", "=">>) = <<"0">>
    /\ [][(/\ event'.kind = "Equals"
           /\ ~app.error_state
           /\ app.pending_op = None
           /\ app.last_op = None) =>
              /\ app'.accumulator = app.accumulator
              /\ app'.current_text = _format_decimal(app.accumulator)
              /\ app'.display_var = _format_decimal(app.accumulator)
              /\ app'.reset_next_entry
              /\ app'.pending_op = None
              /\ app'.last_op = None
              /\ ~app'.error_state]_vars

\* such an Equals has run: the entry shows the accumulator, 0, and the next
\* digit starts a fresh entry
C16_Witness ==
    /\ event.kind = "Equals"
    /\ ~was.error_state
    /\ was.pending_op = None
    /\ was.last_op = None
    /\ ~was.reset_next_entry
    /\ app.current_text = <<"0">>
    /\ IsZero(app.accumulator)
    /\ app.reset_next_entry
    /\ app.clear_label = "C"

\* C17: between events a pending operator and a remembered operator are
\* never both present
C17_PendingOrRemembered == app.pending_op = None \/ app.last_op = None

\* an Operator event that found an operation remembered: the operator is
\* pending now and the memory's operator is gone
C17_Witness ==
    /\ event.kind = "Operator"
    /\ was.last_op = "+"
    /\ was.pending_op = None
    /\ app.pending_op = "*"
    /\ app.last_op = None

\* C18: a Backspace in a non-error state changes nothing while a fresh entry
\* is awaited; otherwise it removes the last character of the entry text,
\* except that a text of length 1, or of length 2 starting with "-", becomes
\* "0"; accumulator, pending operator and repeat memory stay as they were.
\* In the Error state it leaves the object as All-Clear does
C18_BackspaceEditsEntry ==
    /\ Shows(<<"1", "2", "B">>) = <<"1">>
    /\ Shows(<<"s", "5", "B">>) = <<"0">>
    /\ Shows(<<"7", "B">>) = <<"0">>
    /\ [][event'.kind = "Backspace" =>
              IF app.error_state THEN app' = NewApp
              ELSE IF app.reset_next_entry THEN app' = app
              ELSE LET text == app.current_text
                       left == IF Len(text) = 1 \/ (Len(text) = 2 /\ text[1] = "-")
                               THEN <<"0">>
                               ELSE SubSeq(text, 1, Len(text) - 1)
                   IN  /\ app'.current_text = left
                       /\ app'.display_var = left
                       /\ app'.accumulator = app.accumulator
                       /\ app'.pending_op = app.pending_op
                       /\ app'.last_op = app.last_op
                       /\ app'.last_operand = app.last_operand
                       /\ ~app'.reset_next_entry
                       /\ ~app'.error_state]_vars

\* a Backspace has taken the digit off "0.d" while + is pending: the entry is
\* "0." and + is still pending
C18_Witness ==
    /\ event.kind = "Backspace"
    /\ ~was.error_state
    /\ ~was.reset_next_entry
    /\ app.current_text = <<"0", ".">>
    /\ app.pending_op = "+"
    /\ ~IsZero(app.accumulator)

\* C19: after every event the display reads "Error" exactly when the error
\* flag is set, and otherwise reads the entry text
C19_DisplayFollowsState ==
    /\ app.display_var = ErrorText <=> app.error_state
    /\ ~app.error_state => app.display_var = app.current_text

\* an Operator event has divided by the entry "0.": the display reads
\* "Error" while the entry text is still "0."
C19_Witness ==
    /\ event.kind = "Operator"
    /\ was.pending_op = "/"
    /\ app.error_state
    /\ app.display_var = ErrorText
    /\ app.current_text = <<"0", ".">>

\* C20: whenever the remembered operator is "/" the remembered operand is not
\* zero; an Equals that finds no operator pending never sets the error flag;
\* and the error flag is set only by an Operator or Equals event that finds
\* "/" pending and an entry that parses to zero
C20_OnlyDivisionByZeroFails ==
    /\ app.last_op = "/" => ~IsZero(app.last_operand)
    /\ [][/\ app'.last_op = "/" => ~IsZero(app'.last_operand)
          /\ (event'.kind = "Equals" /\ ~app.error_state /\ app.pending_op = None)
                 => ~app'.error_state
          /\ (~app.error_state /\ app'.error_state)
                 => /\ event'.kind \in {"Operator", "Equals"}
                    /\ app.pending_op = "/"
                    /\ IsZero(_decimal_from_text(app.current_text))]_vars

\* an Equals has repeated a remembered division: no error, and the division
\* is still remembered with its non-zero operand
C20_Witness ==
    /\ event.kind = "Equals"
    /\ was.pending_op = None
    /\ was.last_op = "/"
    /\ ~was.error_state
    /\ ~app.error_state
    /\ app.last_op = "/"
    /\ ~IsZero(app.last_operand)
    /\ ~IsZero(app.accumulator)
=============================================================================
